---- MODULE Spec2Model ----
(***************************************************************************)
(* Verification model of cnpryer/solver.                                   *)
(*                                                                         *)
(*   SpecSP      shortest_path over the compact graph and its priority     *)
(*               queue (crates/solver_graph/src/ops.rs, queue.rs)          *)
(*   SpecSolver  the Solver iteration loop and Solution::best              *)
(*               (crates/solver_vrp/src/solver.rs, solution.rs)            *)
(*   SpecModel   plan-unit construction of Model::from                     *)
(*               (crates/solver-vrp/src/model.rs)                          *)
(*   SpecPQ      pushes and pops of the priority queue (queue.rs)          *)
(*   SpecDag     arcs added to a DirectedAcyclicGraph                      *)
(*               (crates/solver_vrp/src/model.rs)                          *)
(*   SpecCalls   one call of a pure function per behaviour                 *)
(*   FairSpecSP, FairSpecSolver  the loops under weak fairness             *)
(***************************************************************************)
EXTENDS Integers, Sequences, FiniteSets, TLC

VARIABLES
    \* ---- shortest_path (ops.rs) ----
    graph,            \* [n, adj]: nodes 0..n-1, adj[i] = edge list of node i
    from,             \* argument `from` (= local `start`)
    to,               \* argument `to`
    overflow_checks,  \* build profile, once an overflow has shown it: <<>> not yet,
                      \* <<TRUE>> `+` panics on overflow, <<FALSE>> `+` wraps
    weights,          \* HashMap<P, SmallArray<V>>: best recorded weight per node
    prev_nodes,       \* HashMap<P, Option<P>>: predecessor per node
    queue,            \* PriorityQueue heap, a sequence of <<node, weight>>
    sp_pc,            \* "loop" | "some" | "none" | "panic" | "hang"
    path,             \* the returned Vec of node values when sp_pc = "some"
    \* ---- Solver (solver.rs) ----
    operators,        \* Operators: registered operators, in registration order
    max_iterations,   \* SolverOptions.max_iterations
    seed,             \* the Option<Solution> given through plan(), <<>> = None
    solution,         \* Solver.solution : Option<Solution>, <<>> = None
    iteration_count,  \* Solver.iteration_count
    solver_pc,        \* "loop" | "ops" | "done"
    local,            \* the local `solution` of execute_operators
    op_index,         \* position of the `for op in operators` loop
    result,           \* value returned by solve()
    executed,         \* executed[i]: how often operator i's execute ran
    best_call,        \* operands and result of the last Solution::best call
    candidates,       \* values of all candidates the operators produced
    iter_start,       \* self.solution when the current iteration began
    op_calls,         \* the execute calls of the current iteration, in order:
                      \* [op, solution, result]
    \* ---- Model::from (solver-vrp/src/model.rs) ----
    input,            \* Input: [stops, vehicles]
    m_index,          \* position of the plan-unit loop over input.stops
    plan_units,       \* PlanUnits built so far: sequence of [index, stops]
    plan_unit_set,    \* HashSet of claimed stop indices
    m_pc,             \* "units" | "built" | "panic"
    \* ---- single calls of library functions ----
    call,             \* the call: [op, ...arguments]
    ret,              \* its outcome: [panic, value], <<>> while it runs
    call_pc,          \* "call" | "done"
    \* ---- PriorityQueue (queue.rs) ----
    pq_heap,          \* PriorityQueue.heap
    pq_before,        \* the heap before the last operation
    pq_ret,           \* what the last pop returned: <<>> None, <<x>> Some(x)
    pq_op,            \* the last operation: "new" | "push" | "pop"
    pq_held,          \* how often each value was pushed and not yet popped
    \* ---- DirectedAcyclicGraph (solver_vrp/src/model.rs) ----
    dag,              \* [edges, outbound_arcs, arcs]; a Vec indexed by node i is
                      \* a sequence whose element i + 1 belongs to node i
    dag_added,        \* the add_arc calls made so far: sequence of <<from, to>>
    dag_pc            \* "ok" | "panic"

spVars == <<graph, from, to, overflow_checks, weights, prev_nodes, queue, sp_pc, path>>
solverVars == <<operators, max_iterations, seed, solution, iteration_count,
                solver_pc, local, op_index, result, executed, best_call, candidates,
                iter_start, op_calls>>
modelVars == <<input, m_index, plan_units, plan_unit_set, m_pc>>
callVars == <<call, ret, call_pc>>
pqVars == <<pq_heap, pq_before, pq_ret, pq_op, pq_held>>
dagVars == <<dag, dag_added, dag_pc>>
restVars == <<callVars, pqVars, dagVars>>
vars == <<spVars, solverVars, modelVars, restVars>>

\* No function call and no queue in use.
RestIdle ==
    /\ call = <<>> /\ ret = <<>> /\ call_pc = "idle"
    /\ pq_heap = <<>> /\ pq_before = <<>> /\ pq_ret = <<>> /\ pq_op = "idle"
    /\ pq_held = <<>>
    /\ dag = <<>> /\ dag_added = <<>> /\ dag_pc = "idle"

(***************************************************************************)
(* Bounds of the model.                                                    *)
(***************************************************************************)
MaxEdges == 3        \* generated graphs have at most this many edges
WeightBits == 8      \* width of the signed weight type V (V = i8)

GenNodeSet == {0, 1, 2}   \* the nodes of the generated graphs

Last(s) == s[Len(s)]
Front(s) == SubSeq(s, 1, Len(s) - 1)

(***************************************************************************)
(* SmallArray<V> as its slice view: <<>> is Empty, <<w>> is One([w]).      *)
(* Option<SmallArray<V>> is a sequence of at most one SmallArray:          *)
(* <<>> is None, << a >> is Some(a).                                       *)
(***************************************************************************)
Empty == <<>>
One(w) == <<w>>

\* Ord for SmallArray: slice (lexicographic) comparison, strict part.
SmallArrayLt(a, b) ==
    IF a = <<>> THEN b # <<>>
    ELSE IF b = <<>> THEN FALSE
    ELSE a[1] < b[1]

\* `+` of the weight type V: in range, or overflowing.
WMin == 0 - 2 ^ (WeightBits - 1)
WMax == 2 ^ (WeightBits - 1) - 1
Overflows(x) == x < WMin \/ x > WMax
Wrap(x) == ((x - WMin) % (2 ^ WeightBits)) + WMin

\* Variant of reduce: One + One keeps the left operand.
reduceKeepLeft(a, b) ==
    IF a = Empty /\ b = Empty THEN [overflow |-> FALSE, value |-> Empty]
    ELSE IF a = Empty THEN [overflow |-> FALSE, value |-> One(b[1])]
    ELSE [overflow |-> FALSE, value |-> One(a[1])]

\* Reduce for SmallArray with Reducer::SumArray, on Empty/One operands.
\* The result is [overflow, value]: `a[0] + b[0]` overflowed, and the sum
\* (the wrapped sum when it overflowed).
reduce(a, b) ==
    IF a = Empty /\ b = Empty THEN [overflow |-> FALSE, value |-> Empty]
    ELSE IF a = Empty THEN [overflow |-> FALSE, value |-> One(b[1])]
    ELSE IF b = Empty THEN [overflow |-> FALSE, value |-> One(a[1])]
    ELSE [overflow |-> Overflows(a[1] + b[1]), value |-> One(Wrap(a[1] + b[1]))]

(***************************************************************************)
(* PriorityQueue<(P, SmallArray<V>)>: a binary heap in a Dynamic array.    *)
(* Positions are 0-based as in the source; heap[i + 1] is element i.       *)
(***************************************************************************)
\* Ord of the queue's element type, the tuple (P, SmallArray<V>).
EntryLt(a, b) ==
    \/ a[1] < b[1]
    \/ a[1] = b[1] /\ SmallArrayLt(a[2], b[2])

swap(heap, i, j) ==
    [heap EXCEPT ![i + 1] = heap[j + 1], ![j + 1] = heap[i + 1]]

RECURSIVE heapify_up(_, _)
heapify_up(heap, index) ==
    IF index > 0
    THEN LET parent_index == (index - 1) \div 2
         IN  IF ~EntryLt(heap[index + 1], heap[parent_index + 1])
             THEN heap
             ELSE heapify_up(swap(heap, index, parent_index), parent_index)
    ELSE heap

RECURSIVE heapify_down(_, _)
heapify_down(heap, index) ==
    LET len == Len(heap)
        left_child == 2 * index + 1
        right_child == 2 * index + 2
        s1 == IF left_child < len /\ EntryLt(heap[left_child + 1], heap[index + 1])
              THEN left_child ELSE index
        smallest == IF right_child < len /\ EntryLt(heap[right_child + 1], heap[s1 + 1])
                    THEN right_child ELSE s1
    IN  IF smallest # index
        THEN heapify_down(swap(heap, index, smallest), smallest)
        ELSE heap

\* Variant of push: the new element is not sifted up.
pushNoSift(heap, value) == Append(heap, value)

push(heap, value) == heapify_up(Append(heap, value), Len(heap))

\* Variant of pop: the root is returned and stays in the heap.
popKeepsRoot(heap) == [popped |-> heap[1], heap |-> heap]

\* Variant of pop: the new root is not sifted down.
popNoSift(heap) ==
    LET last_index == Len(heap) - 1
        swapped == swap(heap, 0, last_index)
    IN  [popped |-> Last(swapped), heap |-> Front(swapped)]

\* pop on a non-empty heap: [popped, heap].
pop(heap) ==
    LET last_index == Len(heap) - 1
        swapped == swap(heap, 0, last_index)
    IN  [popped |-> Last(swapped),
         heap |-> IF last_index = 0 THEN <<>> ELSE heapify_down(Front(swapped), 0)]

(***************************************************************************)
(* Graphs.  An edge is [from, to, weights]; weights is an                  *)
(* Option<SmallArray<V>>.  nodes[i] carries the payload i, as in           *)
(* nodes(vec![0, 1, 2, 3]).                                                *)
(***************************************************************************)
edge(f, t) == [from |-> f, to |-> t, weights |-> <<>>]
weighted_edge(f, t, w) == [from |-> f, to |-> t, weights |-> <<One(w)>>]

EdgeWeight(e) == IF e.weights = <<>> THEN Empty ELSE e.weights[1]

\* The graph of the repository's test and of tsp.rs.
SampleGraph ==
    [n |-> 4,
     adj |-> [i \in 0..3 |->
                CASE i = 0 -> <<weighted_edge(0, 1, 1), weighted_edge(0, 2, 100)>>
                  [] i = 1 -> <<weighted_edge(1, 2, 1)>>
                  [] i = 2 -> <<weighted_edge(2, 0, 2)>>
                  [] OTHER -> <<>>]]

\* Generated edges are unweighted (None) or carry one weight: a unit
\* weight, or a large negative or positive one (two large weights of the
\* same sign add up to the limit of V).
NegWeight == 0 - 2 ^ (WeightBits - 2)
BigWeight == 2 ^ (WeightBits - 2)
WeightOptions == {<<>>} \cup {<<One(w)>> : w \in {NegWeight, 1, BigWeight}}

\* The edge list of node i: its edges in f, by ascending target.
RECURSIVE AdjOf(_, _, _)
AdjOf(f, i, j) ==
    IF j \notin GenNodeSet THEN <<>>
    ELSE (IF <<i, j>> \in DOMAIN f
          THEN <<[from |-> i, to |-> j, weights |-> f[<<i, j>>]]>>
          ELSE <<>>) \o AdjOf(f, i, j + 1)

MkGraph(f) == [n |-> Cardinality(GenNodeSet), adj |-> [i \in GenNodeSet |-> AdjOf(f, i, 0)]]

GenPairs == GenNodeSet \X GenNodeSet

(***************************************************************************)
(* shortest_path: one loop iteration per action.                           *)
(***************************************************************************)
Insert(map, k, v) == [x \in DOMAIN map \cup {k} |-> IF x = k THEN v ELSE map[x]]

\* ops.rs 75-85: the candidate w is recorded when the target has no recorded
\* weight or w is strictly smaller than the recorded one.
ShouldRelaxNoInsert(ws, t, w) == IF t \in DOMAIN ws THEN SmallArrayLt(w, ws[t]) ELSE FALSE
ShouldRelax(ws, t, w) == IF t \in DOMAIN ws THEN SmallArrayLt(w, ws[t]) ELSE TRUE

\* The relaxation of one edge (ops.rs 70-86) on
\* st = [weights, prev, queue, overflowed, panic].  With overflow checks
\* (checks) an overflowing `+` panics, without them it wraps.
RelaxEdge(st, node, weight, e, checks) ==
    LET r == reduce(weight, EdgeWeight(e))
        w == r.value
        improve == ShouldRelax(st.weights, e.to, w)
    IN  IF st.panic THEN st
        ELSE IF r.overflow /\ checks
             THEN [st EXCEPT !.panic = TRUE, !.overflowed = TRUE]
        ELSE IF improve
             THEN [weights |-> Insert(st.weights, e.to, w),
                   prev |-> Insert(st.prev, e.to, node),
                   queue |-> push(st.queue, <<e.to, w>>),
                   overflowed |-> st.overflowed \/ r.overflow,
                   panic |-> FALSE]
             ELSE [st EXCEPT !.overflowed = st.overflowed \/ r.overflow]

RECURSIVE RelaxAll(_, _, _, _, _, _)
RelaxAll(st, node, weight, edges, i, checks) ==
    IF i > Len(edges) THEN st
    ELSE RelaxAll(RelaxEdge(st, node, weight, edges[i], checks),
                  node, weight, edges, i + 1, checks)

\* Path reconstruction (ops.rs 49-65): [hang, path]; hang when the walk over
\* prev_nodes never ends.
RECURSIVE Reconstruct(_, _, _, _, _)
Reconstruct(prev, current, start, acc, seen) ==
    IF current \notin DOMAIN prev THEN [hang |-> FALSE, path |-> acc]
    ELSE IF current \in seen THEN [hang |-> TRUE, path |-> acc]
    ELSE IF current = start THEN [hang |-> FALSE, path |-> <<current>> \o acc]
    ELSE Reconstruct(prev, prev[current], start, <<current>> \o acc, seen \cup {current})

SPInit ==
    /\ \/ graph = SampleGraph
       \/ \E S \in SUBSET GenPairs :
            /\ Cardinality(S) <= MaxEdges
            /\ \E f \in [S -> WeightOptions] : graph = MkGraph(f)
    /\ from \in 0..(graph.n - 1)
    /\ to \in 0..(graph.n - 1)
    /\ overflow_checks = <<>>
    /\ weights = Insert(<<>>, from, Empty)
    /\ prev_nodes = <<>>
    /\ queue = push(<<>>, <<from, Empty>>)
    /\ sp_pc = "loop"
    /\ path = <<>>
    \* the other components are not in use
    /\ operators = <<>> /\ max_iterations = 0 /\ seed = <<>> /\ solution = <<>>
    /\ iteration_count = 0 /\ solver_pc = "idle" /\ local = <<>> /\ op_index = 0
    /\ result = <<>> /\ executed = <<>> /\ best_call = <<>> /\ candidates = {}
    /\ iter_start = <<>> /\ op_calls = <<>>
    /\ input = [stops |-> <<>>, vehicles |-> <<>>]
    /\ m_index = 0 /\ plan_units = <<>> /\ plan_unit_set = {} /\ m_pc = "idle"
    /\ RestIdle

\* ops.rs 46-66: the popped node is the target.
SPFound ==
    /\ sp_pc = "loop" /\ queue # <<>>
    /\ LET p == pop(queue)
           rec == Reconstruct(prev_nodes, p.popped[1], from, <<>>, {})
       IN  /\ p.popped[1] = to
           /\ queue' = p.heap
           /\ sp_pc' = IF rec.hang THEN "hang" ELSE "some"
           /\ path' = IF rec.hang THEN <<>> ELSE rec.path
    /\ UNCHANGED <<graph, from, to, overflow_checks, weights, prev_nodes>>

\* ops.rs 46-47, 69-87: the popped node is not the target; relax its edges.
\* The build profile is fixed for the run; it shows at the first overflow.
SPRelax ==
    /\ sp_pc = "loop" /\ queue # <<>>
    /\ \E checks \in (IF overflow_checks = <<>> THEN BOOLEAN ELSE {overflow_checks[1]}) :
         LET p == pop(queue)
             node == p.popped[1]
             st == RelaxAll([weights |-> weights, prev |-> prev_nodes,
                             queue |-> p.heap, overflowed |-> FALSE, panic |-> FALSE],
                            node, p.popped[2],
                            IF node < graph.n THEN graph.adj[node] ELSE <<>>,
                            1, checks)
         IN  /\ node # to
             /\ weights' = st.weights
             /\ prev_nodes' = st.prev
             /\ queue' = st.queue
             /\ sp_pc' = IF st.panic THEN "panic" ELSE "loop"
             /\ overflow_checks' = IF st.overflowed THEN <<checks>> ELSE overflow_checks
    /\ UNCHANGED <<graph, from, to, path>>

\* ops.rs 46, 90: the queue is empty.
SPExhausted ==
    /\ sp_pc = "loop" /\ queue = <<>>
    /\ sp_pc' = "none"
    /\ UNCHANGED <<graph, from, to, overflow_checks, weights, prev_nodes, queue, path>>


(***************************************************************************)
(* Solver (solver.rs) and Solution (solution.rs).                          *)
(* A Solution is [value, origin]; origin stands for the rest of its        *)
(* contents: -1 the seed given to plan(), 0 Solution::default(), i > 0 a   *)
(* candidate made by operator i.  Option<Solution> is a sequence of at     *)
(* most one Solution.                                                      *)
(***************************************************************************)
MaxIter == 2         \* max_iterations ranges over 0..MaxIter
MaxOps == 2          \* at most this many registered operators
MaxValue == 1        \* solution values range over MinValue..MaxValue
MinValue == 0 - 1

Values == MinValue..MaxValue

\* Solution::new / Default (solution.rs 10-25)
DefaultSolution == [value |-> 0, origin |-> 0]

\* Variants of best: the higher value wins; ties go to self.
bestHigher(self, other) == IF self.value > other.value THEN self ELSE other
bestTieLeft(self, other) == IF self.value <= other.value THEN self ELSE other

\* Solution::best (solution.rs 36-44)
best(self, other) == IF self.value < other.value THEN self ELSE other

\* Variant of unwrap_or_default: the default Solution whatever is held.
unwrapAlwaysDefault(opt) == DefaultSolution

\* Option::unwrap_or_default on self.solution.take() (solver.rs 87)
unwrap_or_default(opt) == IF opt = <<>> THEN DefaultSolution ELSE opt[1]

\* Variants of the loop condition: one iteration short, one too many.
LoopCondShort(max, count) == max > count + 1
LoopCondInclusive(max, count) == max >= count

\* The loop condition of solve (solver.rs 75)
LoopCond(max, count) == max > count

\* An operator is [kind, chance].  The built-in Repair/Destroy/Reset
\* operators of solver.rs return None from execute; a Custom operator
\* (any other implementation of the trait) returns None or a Solution.
\* chance is OperatorParameters.chance, 0 for 0.0 and 1 for 1.0.
OperatorTypes == [kind : {"Repair", "Custom"}, chance : {0, 1}]

\* Option<Solution> results execute can give (solver.rs 196-198, 9).
ExecuteResults(op, i) ==
    IF op.kind = "Custom"
    THEN {<<>>} \cup {<<[value |-> v, origin |-> i]>> : v \in Values}
    ELSE {<<>>}

RECURSIVE SeqsUpTo(_, _)
SeqsUpTo(S, n) ==
    IF n = 0 THEN {<<>>}
    ELSE LET shorter == SeqsUpTo(S, n - 1)
         IN  shorter \cup {Append(q, x) : q \in {r \in shorter : Len(r) = n - 1}, x \in S}

\* SolverBuilder ... .model(..).plan(seed).build() (solver.rs 122-161)
SolverInit ==
    /\ operators \in SeqsUpTo(OperatorTypes, MaxOps)
    /\ max_iterations \in 0..MaxIter
    /\ seed \in {<<>>} \cup {<<[value |-> v, origin |-> 0 - 1]>> : v \in Values}
    /\ solution = seed
    /\ iteration_count = 0
    /\ solver_pc = "loop"
    /\ local = <<>>
    /\ op_index = 0
    /\ result = <<>>
    /\ executed = [i \in 1..Len(operators) |-> 0]
    /\ best_call = <<>>
    /\ candidates = {}
    /\ iter_start = <<>>
    /\ op_calls = <<>>
    \* the other components are not in use
    /\ graph = [n |-> 0, adj |-> <<>>]
    /\ from = 0 /\ to = 0 /\ overflow_checks = <<>>
    /\ weights = <<>> /\ prev_nodes = <<>> /\ queue = <<>>
    /\ sp_pc = "idle" /\ path = <<>>
    /\ input = [stops |-> <<>>, vehicles |-> <<>>]
    /\ m_index = 0 /\ plan_units = <<>> /\ plan_unit_set = {} /\ m_pc = "idle"
    /\ RestIdle

\* solve enters the loop body; execute_operators takes the solution
\* (solver.rs 75-76, 87).
BeginIteration ==
    /\ solver_pc = "loop"
    /\ LoopCond(max_iterations, iteration_count)
    /\ local' = <<unwrap_or_default(solution)>>
    /\ solution' = <<>>
    /\ op_index' = 1
    /\ solver_pc' = "ops"
    /\ iter_start' = solution
    /\ op_calls' = <<>>
    /\ UNCHANGED <<operators, max_iterations, seed, iteration_count, result,
                   executed, best_call, candidates>>

\* for op in operators: execute returned Some(s) (solver.rs 88-91).
OperatorYields ==
    /\ solver_pc = "ops" /\ op_index <= Len(operators)
    /\ \E r \in ExecuteResults(operators[op_index], op_index) :
         /\ r # <<>>
         /\ local' = <<best(r[1], local[1])>>
         /\ best_call' = <<[a |-> r[1], b |-> local[1], out |-> best(r[1], local[1])]>>
         /\ candidates' = candidates \cup {r[1].value}
         /\ op_calls' = Append(op_calls, [op |-> op_index, solution |-> local[1], result |-> r])
    /\ executed' = [executed EXCEPT ![op_index] = @ + 1]
    /\ op_index' = op_index + 1
    /\ UNCHANGED <<operators, max_iterations, seed, solution, iteration_count,
                   solver_pc, result, iter_start>>

\* for op in operators: execute returned None (solver.rs 88-89).
OperatorDeclines ==
    /\ solver_pc = "ops" /\ op_index <= Len(operators)
    /\ <<>> \in ExecuteResults(operators[op_index], op_index)
    /\ executed' = [executed EXCEPT ![op_index] = @ + 1]
    /\ op_calls' = Append(op_calls, [op |-> op_index, solution |-> local[1], result |-> <<>>])
    /\ op_index' = op_index + 1
    /\ UNCHANGED <<operators, max_iterations, seed, solution, iteration_count,
                   solver_pc, local, result, best_call, candidates, iter_start>>

\* Variant of EndIteration: the iteration may end before every operator ran.
EndIterationEarly ==
    /\ solver_pc = "ops"
    /\ solution' = local
    /\ local' = <<>>
    /\ iteration_count' = iteration_count + 1
    /\ solver_pc' = "loop"
    /\ UNCHANGED <<operators, max_iterations, seed, op_index, result,
                   executed, best_call, candidates, iter_start, op_calls>>

\* execute_operators stores the solution; increment_iteration
\* (solver.rs 93, 77, 82-84).
EndIteration ==
    /\ solver_pc = "ops" /\ op_index > Len(operators)
    /\ solution' = local
    /\ local' = <<>>
    /\ iteration_count' = iteration_count + 1
    /\ solver_pc' = "loop"
    /\ UNCHANGED <<operators, max_iterations, seed, op_index, result,
                   executed, best_call, candidates, iter_start, op_calls>>

\* solve returns self.solution (solver.rs 79).
Return ==
    /\ solver_pc = "loop"
    /\ ~LoopCond(max_iterations, iteration_count)
    /\ result' = solution
    /\ solver_pc' = "done"
    /\ UNCHANGED <<operators, max_iterations, seed, solution, iteration_count,
                   local, op_index, executed, best_call, candidates, iter_start, op_calls>>


(***************************************************************************)
(* Model::from (solver-vrp/src/model.rs).                                  *)
(* A stop of the input is [id, precedes]; precedes is an Option<Vec<Id>>:  *)
(* <<>> is None, << ids >> is Some(ids).  Stop indices are 0-based as in   *)
(* the source: the stop at position k of input has index k - 1.            *)
(* A vehicle of the input is its initial_stops, an Option<Vec<Id>>.        *)
(***************************************************************************)
MaxStops == 3        \* inputs have at most this many stops

\* Stop ids are 1..n; the id 0 names no stop of any generated input.

\* stop_map after the loop of model.rs 38-50: the last index inserted for id.
HasId(stops, id) == \E k \in 1..Len(stops) : stops[k].id = id
stop_map(stops, id) ==
    (CHOOSE k \in 1..Len(stops) :
        /\ stops[k].id = id
        /\ \A j \in (k + 1)..Len(stops) : stops[j].id # id) - 1

PrecedesOptions(n) ==
    {<<>>, << <<>> >>}
    \cup {<< <<x>> >> : x \in 0..n}
    \cup {<< <<x, y>> >> : x \in 1..n, y \in 2..n}

StopInputs(n) ==
    {s \in [1..n -> [id : 1..n, precedes : PrecedesOptions(n)]] :
        \A k \in 1..n : s[k].id = k}

VehicleInputs(n) ==
    {<<>>, << <<>> >>, << <<1>> >>, << <<1, 1>> >>, << <<0>> >>,
     << <<>>, <<1>> >>}

\* Entry of Model::from, after stops_vec and stop_map are built
\* (model.rs 33-53).
ModelInit ==
    /\ \E n \in 0..MaxStops :
         \E s \in StopInputs(n) :
           \E v \in VehicleInputs(n) :
             input = [stops |-> s, vehicles |-> v]
    /\ m_index = 0
    /\ plan_units = <<>>
    /\ plan_unit_set = {}
    /\ m_pc = "units"
    \* the other components are not in use
    /\ graph = [n |-> 0, adj |-> <<>>]
    /\ from = 0 /\ to = 0 /\ overflow_checks = <<>>
    /\ weights = <<>> /\ prev_nodes = <<>> /\ queue = <<>>
    /\ sp_pc = "idle" /\ path = <<>>
    /\ operators = <<>> /\ max_iterations = 0 /\ seed = <<>> /\ solution = <<>>
    /\ iteration_count = 0 /\ solver_pc = "idle" /\ local = <<>> /\ op_index = 0
    /\ result = <<>> /\ executed = <<>> /\ best_call = <<>> /\ candidates = {}
    /\ iter_start = <<>> /\ op_calls = <<>>
    /\ RestIdle

CurrentStop == input.stops[m_index + 1]

\* model.rs 56-58: the stop is already part of a plan unit.
SkipClaimedStop ==
    /\ m_pc = "units" /\ m_index < Len(input.stops)
    /\ m_index \in plan_unit_set
    /\ m_index' = m_index + 1
    /\ UNCHANGED <<input, plan_units, plan_unit_set, m_pc>>

TooManyPrecedes(stop) == stop.precedes # <<>> /\ Len(stop.precedes[1]) > 1
HasFirstPrecedes(stop) == stop.precedes # <<>> /\ Len(stop.precedes[1]) > 0
FirstPrecedes(stop) == stop.precedes[1][1]

\* model.rs 60-84: a new plan unit for the current stop.
BuildPlanUnit ==
    /\ m_pc = "units" /\ m_index < Len(input.stops)
    /\ m_index \notin plan_unit_set
    /\ ~TooManyPrecedes(CurrentStop)
    /\ IF HasFirstPrecedes(CurrentStop)
       THEN /\ HasId(input.stops, FirstPrecedes(CurrentStop))
            /\ LET next_index == stop_map(input.stops, FirstPrecedes(CurrentStop))
               IN  /\ next_index \notin plan_unit_set
                   /\ plan_units' = Append(plan_units,
                         [index |-> Len(plan_units), stops |-> <<m_index, next_index>>])
                   /\ plan_unit_set' = plan_unit_set \cup {next_index, m_index}
       ELSE /\ plan_units' = Append(plan_units,
                         [index |-> Len(plan_units), stops |-> <<m_index>>])
            /\ plan_unit_set' = plan_unit_set \cup {m_index}
    /\ m_index' = m_index + 1
    /\ UNCHANGED <<input, m_pc>>

\* model.rs 66-78: the panics of the plan-unit loop.
PlanUnitPanic ==
    /\ m_pc = "units" /\ m_index < Len(input.stops)
    /\ m_index \notin plan_unit_set
    /\ \/ TooManyPrecedes(CurrentStop)
       \/ /\ HasFirstPrecedes(CurrentStop)
          /\ \/ ~HasId(input.stops, FirstPrecedes(CurrentStop))
             \/ /\ HasId(input.stops, FirstPrecedes(CurrentStop))
                /\ stop_map(input.stops, FirstPrecedes(CurrentStop)) \in plan_unit_set
    /\ m_pc' = "panic"
    /\ UNCHANGED <<input, m_index, plan_units, plan_unit_set>>

InitialStopsResolve ==
    \A k \in 1..Len(input.vehicles) :
        \A j \in 1..Len(input.vehicles[k]) : HasId(input.stops, input.vehicles[k][j])

\* model.rs 87-117: the vehicles are built and the Model returned.
BuildVehicles ==
    /\ m_pc = "units" /\ m_index = Len(input.stops)
    /\ InitialStopsResolve
    /\ m_pc' = "built"
    /\ UNCHANGED <<input, m_index, plan_units, plan_unit_set>>

\* model.rs 101-103: an initial stop id is not in stop_map.
VehiclePanic ==
    /\ m_pc = "units" /\ m_index = Len(input.stops)
    /\ ~InitialStopsResolve
    /\ m_pc' = "panic"
    /\ UNCHANGED <<input, m_index, plan_units, plan_unit_set>>


(***************************************************************************)
(* Specifications.                                                         *)
(***************************************************************************)
SPSteps ==
    \/ SPFound /\ UNCHANGED <<solverVars, modelVars, restVars>>
    \/ SPRelax /\ UNCHANGED <<solverVars, modelVars, restVars>>
    \/ SPExhausted /\ UNCHANGED <<solverVars, modelVars, restVars>>

SpecSP == SPInit /\ [][SPSteps]_vars

\* The calls the termination of shortest_path is checked on: the sample
\* graph and the graphs of at most MaxLiveEdges edges that carry no weight
\* or the weight BigWeight.
MaxLiveEdges == 2
LiveWeightOptions == {<<>>, <<One(BigWeight)>>}

SPLiveInit ==
    /\ \/ graph = SampleGraph
       \/ \E S \in SUBSET GenPairs :
            /\ Cardinality(S) <= MaxLiveEdges
            /\ \E f \in [S -> LiveWeightOptions] : graph = MkGraph(f)
    /\ from \in 0..(graph.n - 1)
    /\ to \in 0..(graph.n - 1)
    /\ overflow_checks = <<>>
    /\ weights = Insert(<<>>, from, Empty)
    /\ prev_nodes = <<>>
    /\ queue = push(<<>>, <<from, Empty>>)
    /\ sp_pc = "loop"
    /\ path = <<>>
    \* the other components are not in use
    /\ operators = <<>> /\ max_iterations = 0 /\ seed = <<>> /\ solution = <<>>
    /\ iteration_count = 0 /\ solver_pc = "idle" /\ local = <<>> /\ op_index = 0
    /\ result = <<>> /\ executed = <<>> /\ best_call = <<>> /\ candidates = {}
    /\ iter_start = <<>> /\ op_calls = <<>>
    /\ input = [stops |-> <<>>, vehicles |-> <<>>]
    /\ m_index = 0 /\ plan_units = <<>> /\ plan_unit_set = {} /\ m_pc = "idle"
    /\ RestIdle

\* shortest_path is a sequential loop: a step that is enabled is taken.
FairSpecSP == SPLiveInit /\ [][SPSteps]_vars /\ WF_vars(SPSteps)

SolverSteps ==
    \/ BeginIteration /\ UNCHANGED <<spVars, modelVars, restVars>>
    \/ OperatorYields /\ UNCHANGED <<spVars, modelVars, restVars>>
    \/ OperatorDeclines /\ UNCHANGED <<spVars, modelVars, restVars>>
    \/ EndIteration /\ UNCHANGED <<spVars, modelVars, restVars>>
    \/ Return /\ UNCHANGED <<spVars, modelVars, restVars>>

SpecSolver == SolverInit /\ [][SolverSteps]_vars

\* solve() is a sequential loop: a step that is enabled is taken.
FairSpecSolver == SpecSolver /\ WF_vars(SolverSteps)

ModelSteps ==
    \/ SkipClaimedStop /\ UNCHANGED <<spVars, solverVars, restVars>>
    \/ BuildPlanUnit /\ UNCHANGED <<spVars, solverVars, restVars>>
    \/ PlanUnitPanic /\ UNCHANGED <<spVars, solverVars, restVars>>
    \/ BuildVehicles /\ UNCHANGED <<spVars, solverVars, restVars>>
    \/ VehiclePanic /\ UNCHANGED <<spVars, solverVars, restVars>>

SpecModel == ModelInit /\ [][ModelSteps]_vars


(***************************************************************************)
(* Graph notions the shortest_path properties are stated with.             *)
(***************************************************************************)
NodesOf(g) == 0..(g.n - 1)
EdgesOf(g) == UNION {{g.adj[i][k] : k \in 1..Len(g.adj[i])} : i \in NodesOf(g)}
WeightOf(e) == IF EdgeWeight(e) = Empty THEN 0 ELSE EdgeWeight(e)[1]

NonNegative(g) == \A e \in EdgesOf(g) : WeightOf(e) >= 0

RECURSIVE SumWeights(_)
SumWeights(E) ==
    IF E = {} THEN 0
    ELSE LET e == CHOOSE x \in E : TRUE IN WeightOf(e) + SumWeights(E \ {e})

\* No sum of edge weights along a simple path leaves the range of V.
SumsFit(g) == SumWeights({e \in EdgesOf(g) : WeightOf(e) > 0}) <= WMax

RECURSIVE ReachFrom(_, _)
ReachFrom(g, S) ==
    LET T == S \cup {e.to : e \in {x \in EdgesOf(g) : x.from \in S}}
    IN  IF T = S THEN S ELSE ReachFrom(g, T)

Reachable(g, a, b) == b \in ReachFrom(g, {a})

Infinity == 2 ^ (3 * WeightBits)
SetMin(S) == CHOOSE x \in S : \A y \in S : x <= y

\* Least weight of a walk of at most k edges from a to each node.
RECURSIVE DistK(_, _, _)
DistK(g, a, k) ==
    IF k = 0 THEN [v \in NodesOf(g) |-> IF v = a THEN 0 ELSE Infinity]
    ELSE LET d == DistK(g, a, k - 1)
         IN  [v \in NodesOf(g) |->
                SetMin({d[v]} \cup {d[e.from] + WeightOf(e) :
                                      e \in {x \in EdgesOf(g) : x.to = v /\ d[x.from] < Infinity}})]

Dist(g, a, b) == DistK(g, a, g.n)[b]

HasEdge(g, a, b) == \E e \in EdgesOf(g) : e.from = a /\ e.to = b
StepWeight(g, a, b) == SetMin({WeightOf(e) : e \in {x \in EdgesOf(g) : x.from = a /\ x.to = b}})

IsRoute(g, r) == \A k \in 1..(Len(r) - 1) : HasEdge(g, r[k], r[k + 1])

RECURSIVE RouteWeight(_, _)
RouteWeight(g, r) ==
    IF Len(r) <= 1 THEN 0
    ELSE StepWeight(g, r[1], r[2]) + RouteWeight(g, Tail(r))

(***************************************************************************)
(* C1.  With non-negative edge weights, a returned path has the least      *)
(* total weight among all routes from `from` to `to`, whatever the         *)
(* numbering of the nodes.  The returned sequence is read as the route     *)
(* that leaves `from` and visits the returned nodes in order.              *)
(***************************************************************************)
C1_MinimumWeight ==
    (sp_pc = "some" /\ NonNegative(graph) /\ SumsFit(graph) /\ from # to)
        => /\ IsRoute(graph, <<from>> \o path)
           /\ RouteWeight(graph, <<from>> \o path) = Dist(graph, from, to)

(***************************************************************************)
(* C2.  A returned path is the full node sequence of a route: it starts    *)
(* with the node at `from`, ends with the node at `to`, and consecutive    *)
(* nodes are joined by an edge; on the sample graph shortest_path(0, 2)    *)
(* is [0, 1, 2].                                                           *)
(***************************************************************************)
C2_FullRoute ==
    sp_pc = "some"
        => /\ path # <<>>
           /\ path[1] = from
           /\ Last(path) = to
           /\ IsRoute(graph, path)
           /\ (graph = SampleGraph /\ from = 0 /\ to = 2 => path = <<0, 1, 2>>)

RetainedValue ==
    IF solver_pc = "ops" THEN local[1].value ELSE unwrap_or_default(solution).value

Min2(x, y) == IF x < y THEN x ELSE y

NoOperatorExecuted == \A i \in DOMAIN executed : executed[i] = 0

(***************************************************************************)
(* C4.  solve() on a freshly built Solver with max_iterations = N          *)
(* terminates; the iteration counter only ever changes by one, one         *)
(* iteration (BeginIteration .. EndIteration) adds exactly one, the        *)
(* counter never exceeds N and equals N when solve() has returned.         *)
(***************************************************************************)
C4_CounterReachesMax ==
    /\ [](iteration_count <= max_iterations)
    /\ [](solver_pc = "done" => iteration_count = max_iterations)
    /\ [][/\ iteration_count' \in {iteration_count, iteration_count + 1}
          /\ (solver_pc = "ops" /\ solver_pc' = "loop"
                 => iteration_count' = iteration_count + 1)
          /\ (solver_pc' = "ops" => iteration_count' = iteration_count)]_vars
    /\ <>(solver_pc = "done")

C4_Witness ==
    /\ solver_pc = "done"
    /\ max_iterations = 2
    /\ iteration_count = 2

(***************************************************************************)
(* C5.  The value of the retained Solution never increases; after an       *)
(* operator yields a candidate the retained value is the minimum of the    *)
(* previous retained value and the candidate's value; the Solution         *)
(* returned by solve() has the lowest value among the seed (or default)    *)
(* solution and all candidates produced.                                   *)
(***************************************************************************)
C5_ValueNeverIncreases ==
    /\ [][RetainedValue' <= RetainedValue]_vars
    /\ [][(solver_pc = "ops" /\ solver_pc' = "ops" /\ local' # local)
            => /\ best_call'[1].b = local[1]
               /\ local' = <<best_call'[1].out>>]_vars
    /\ [](best_call # <<>>
            => best_call[1].out.value = Min2(best_call[1].b.value, best_call[1].a.value))
    /\ []((solver_pc = "done" /\ result # <<>>)
            => /\ result[1].value <= unwrap_or_default(seed).value
               /\ \A c \in candidates : result[1].value <= c
               /\ result[1].value \in candidates \cup {unwrap_or_default(seed).value})

C5_Witness ==
    /\ solver_pc = "done"
    /\ result # <<>>
    /\ result[1].origin > 0
    /\ result[1].value < unwrap_or_default(seed).value
    /\ \E c \in candidates : result[1].value < c

(***************************************************************************)
(* C6.  As claimed: best(a, b) returns the operand with the strictly       *)
(* lower value, and a, the left-hand operand (self), when the values are   *)
(* equal.                                                                  *)
(***************************************************************************)
C6_TieKeepsLeft_Orig ==
    best_call # <<>>
        => LET c == best_call[1]
           IN  /\ (c.a.value < c.b.value => c.out = c.a)
               /\ (c.b.value < c.a.value => c.out = c.b)
               /\ (c.a.value = c.b.value => c.out = c.a)

(***************************************************************************)
(* C6, amended.  best(a, b) returns the operand with the strictly lower    *)
(* value, and b, the right-hand operand (other), when the values are       *)
(* equal.                                                                  *)
(***************************************************************************)
C6_TieKeepsRight ==
    best_call # <<>>
        => LET c == best_call[1]
           IN  /\ (c.a.value < c.b.value => c.out = c.a)
               /\ (c.b.value < c.a.value => c.out = c.b)
               /\ (c.a.value = c.b.value => c.out = c.b)

C6_Witness ==
    /\ best_call # <<>>
    /\ best_call[1].a.value = best_call[1].b.value
    /\ best_call[1].a # best_call[1].b
    /\ best_call[1].out = best_call[1].b

(***************************************************************************)
(* C7.  An operator is executed only when the draw                         *)
(* random.chance(op.chance(), 1.0) is true; the draw of an operator of     *)
(* chance 0 is never true, so such an operator is never executed.          *)
(***************************************************************************)
C7_ChanceGatesExecute ==
    \A i \in DOMAIN executed : operators[i].chance = 0 => executed[i] = 0

(***************************************************************************)
(* C8.  Every completed solve() returns Some Solution, never None.         *)
(***************************************************************************)
C8_AlwaysSome ==
    solver_pc = "done" => result # <<>>

(***************************************************************************)
(* C9.  With max_iterations = 0, solve() runs no iteration, executes no    *)
(* operator and returns exactly the seed given to plan(), unchanged.       *)
(***************************************************************************)
C9_ZeroIterations ==
    (max_iterations = 0 /\ solver_pc # "idle")
        => /\ solver_pc \in {"loop", "done"}
           /\ iteration_count = 0
           /\ NoOperatorExecuted
           /\ solution = seed
           /\ (solver_pc = "done" => result = seed)

C9_Witness ==
    /\ solver_pc = "done"
    /\ max_iterations = 0
    /\ Len(operators) > 0
    /\ seed # <<>>
    /\ result = seed

(***************************************************************************)
(* Plan-unit notions used by the properties.                               *)
(***************************************************************************)
\* How many times stop index i is listed across all plan units.
Occurrences(i) ==
    Cardinality({<<u, k>> \in (1..Len(plan_units)) \X (1..2) :
                    k <= Len(plan_units[u].stops) /\ plan_units[u].stops[k] = i})

(***************************************************************************)
(* C10.  After Model::from succeeds, every stop index of the input is      *)
(* listed exactly once across all plan units and no plan unit is empty.    *)
(***************************************************************************)
C10_PlanUnitsPartition ==
    m_pc = "built"
        => /\ \A i \in 0..(Len(input.stops) - 1) : Occurrences(i) = 1
           /\ \A u \in 1..Len(plan_units) : Len(plan_units[u].stops) > 0

(***************************************************************************)
(* Input notions used by the properties of Model::from.                    *)
(***************************************************************************)
\* Every id listed in a stop's precedes.
PrecedesIds(stop) ==
    IF stop.precedes = <<>> THEN {}
    ELSE {stop.precedes[1][j] : j \in 1..Len(stop.precedes[1])}

PrecedesResolve ==
    \A k \in 1..Len(input.stops) :
        \A id \in PrecedesIds(input.stops[k]) : HasId(input.stops, id)

\* Each stop declares at most one target, no stop is the target of more
\* than one stop, all ids resolve.
ValidInput ==
    /\ \A k \in 1..Len(input.stops) : ~TooManyPrecedes(input.stops[k])
    /\ \A k1, k2 \in 1..Len(input.stops) :
          (k1 # k2 /\ PrecedesIds(input.stops[k1]) # {})
              => PrecedesIds(input.stops[k1]) # PrecedesIds(input.stops[k2])
    /\ PrecedesResolve
    /\ InitialStopsResolve

InUnit(u, i) == \E k \in 1..Len(plan_units[u].stops) : plan_units[u].stops[k] = i

(***************************************************************************)
(* C11.  For a valid input Model::from does not panic, and in the Model    *)
(* it returns every stop that declares a precedence target is in the same  *)
(* plan unit as that target, wherever the two stand in the input.          *)
(***************************************************************************)
C11_PairedInSameUnit ==
    ValidInput
        => /\ m_pc # "panic"
           /\ m_pc = "built"
                => \A k \in 1..Len(input.stops) :
                      HasFirstPrecedes(input.stops[k])
                          => \E u \in 1..Len(plan_units) :
                                /\ InUnit(u, k - 1)
                                /\ InUnit(u, stop_map(input.stops,
                                                      FirstPrecedes(input.stops[k])))

(***************************************************************************)
(* C12.  For an input in which a stop declares two precedence targets,     *)
(* Model construction neither panics nor returns a Model.                  *)
(***************************************************************************)
C12_TwoTargetsNoPanic ==
    (\E k \in 1..Len(input.stops) : TooManyPrecedes(input.stops[k]))
        => m_pc \notin {"panic", "built"}

(***************************************************************************)
(* C13.  Model construction returns no Model when an initial-stop id of a  *)
(* vehicle or a precedence-target id of a stop matches no stop id.         *)
(***************************************************************************)
C13_DanglingIdFails ==
    (~InitialStopsResolve \/ ~PrecedesResolve) => m_pc # "built"

(***************************************************************************)
(* Solver::solve and Solution::new of solver-vrp (lib.rs, solution.rs).    *)
(* A model vehicle is [index, stops], stops the indices of its initial     *)
(* stops; a solution is [value, vehicles], a solution vehicle [index].     *)
(* A function's outcome is [panic, value].                                 *)
(***************************************************************************)
MaxVehicles == 2     \* models have at most this many vehicles

Panicked == [panic |-> TRUE, value |-> <<>>]
Returned(v) == [panic |-> FALSE, value |-> v]

\* The initial stops a vehicle can have; <<0, 0>> as in test_solver.
InitialStopsOptions == {<<>>, <<0>>, <<0, 0>>}

ModelVehicles ==
    UNION {{[k \in 1..n |-> [index |-> k - 1, stops |-> f[k]]] :
              f \in [1..n -> InitialStopsOptions]} : n \in 0..MaxVehicles}

\* Vehicle::is_empty (model.rs 231-233)
is_empty(vehicle) == vehicle.stops = <<>>

\* Solution::new (solution.rs 17-45): the vehicles that are not empty are
\* mapped to solution vehicles; the loop over a vehicle's stops is todo!().
SolutionNew(model) ==
    LET kept == SelectSeq(model.vehicles, LAMBDA v : ~is_empty(v))
    IN  IF \E k \in 1..Len(kept) : Len(kept[k].stops) > 0
        THEN Panicked
        ELSE Returned([value |-> 0,
                       vehicles |-> [k \in 1..Len(kept) |-> [index |-> kept[k].index]]])

\* Solver::solve (lib.rs 35-43): the loop body is unimplemented!().
VrpSolve(model, iterations) ==
    LET initial_solution == SolutionNew(model)
    IN  IF initial_solution.panic THEN Panicked
        ELSE IF iterations > 0 THEN Panicked
        ELSE initial_solution

SolveCalls ==
    {[op |-> "solve", model |-> [vehicles |-> v], iterations |-> i] :
        v \in ModelVehicles, i \in 0..1}

SolveCall ==
    /\ call_pc = "call" /\ call.op = "solve"
    /\ ret' = VrpSolve(call.model, call.iterations)
    /\ call_pc' = "done"
    /\ UNCHANGED call

\* What the initial solution is to hold: one solution vehicle per model
\* vehicle with at least one initial stop, with that vehicle's index.
ExpectedVehicles(model) ==
    LET kept == SelectSeq(model.vehicles, LAMBDA v : Len(v.stops) > 0)
    IN  [k \in 1..Len(kept) |-> [index |-> kept[k].index]]

(***************************************************************************)
(* C14.  Solving with zero iterations returns the initial solution of      *)
(* Solution::new(model): value 0 and exactly one solution vehicle, with    *)
(* the vehicle's index, per model vehicle that has an initial stop.        *)
(***************************************************************************)
C14_InitialSolution ==
    (call_pc = "done" /\ call.op = "solve" /\ call.iterations = 0)
        => /\ ~ret.panic
           /\ ret.value = [value |-> 0, vehicles |-> ExpectedVehicles(call.model)]

(***************************************************************************)
(* Random (solver_vrp/src/random.rs).  The generator behind it is          *)
(* [seed, pos]: the seed it was made from and the number of values drawn   *)
(* so far.  An f64 draw is the numerator k of k / DrawDen, 0 <= k <        *)
(* DrawDen.  chance takes (numerator, denominator) as integers.            *)
(***************************************************************************)
DrawDen == 4         \* f64 draws are multiples of 1 / DrawDen in [0, 1)
MaxSeed == 1         \* seeds range over 0..MaxSeed
MaxPos == 2          \* generators have drawn at most this many values
MaxNum == 2          \* numerator and denominator range over 0..MaxNum

\* The value the generator of `seed` gives at position `pos`.
Word(s, pos) == (5 * s + 3 * pos + s * pos + 1) % DrawDen

\* Random::f64 (random.rs 35-37): [rng, value]
f64(rng) == [rng |-> [rng EXCEPT !.pos = @ + 1], value |-> Word(rng.seed, rng.pos)]

\* draw < numerator / denominator for a draw k / DrawDen and numerator,
\* denominator >= 0 that differ: x / 0 is +infinity for x > 0.
Below(k, numerator, denominator) ==
    IF denominator = 0 THEN TRUE
    ELSE k * denominator < numerator * DrawDen

\* Variant of chance: no early return, the draw is always made.
chanceAlwaysDraws(rng, numerator, denominator) ==
    LET x == f64(rng)
    IN  [rng |-> x.rng,
         value |-> numerator = denominator \/ Below(x.value, numerator, denominator)]

\* Random::chance (random.rs 47-52): [rng, value]
chance(rng, numerator, denominator) ==
    IF numerator = denominator
    THEN [rng |-> rng, value |-> TRUE]
    ELSE LET x == f64(rng)
         IN  [rng |-> x.rng, value |-> Below(x.value, numerator, denominator)]

ChanceCalls ==
    {[op |-> "chance", rng |-> [seed |-> sd, pos |-> p], numerator |-> n, denominator |-> d] :
        sd \in 0..MaxSeed, p \in 0..MaxPos, n \in 0..MaxNum, d \in 0..MaxNum}

ChanceCall ==
    /\ call_pc = "call" /\ call.op = "chance"
    /\ ret' = Returned(chance(call.rng, call.numerator, call.denominator))
    /\ call_pc' = "done"
    /\ UNCHANGED call

(***************************************************************************)
(* C17.  chance((n, d)) with n = d returns true and leaves the generator   *)
(* as it was, so the next draw is the one that would have come without     *)
(* the call; with n # d it makes exactly one f64 draw and returns whether   *)
(* that draw is below n / d.                                               *)
(***************************************************************************)
C17_ChanceDraws ==
    (call_pc = "done" /\ call.op = "chance")
        => /\ ~ret.panic
           /\ call.numerator = call.denominator
                => /\ ret.value.value = TRUE
                   /\ ret.value.rng = call.rng
                   /\ f64(ret.value.rng).value = f64(call.rng).value
           /\ call.numerator # call.denominator
                => /\ ret.value.rng.seed = call.rng.seed
                   /\ ret.value.rng.pos = call.rng.pos + 1
                   /\ ret.value.value
                        = Below(Word(call.rng.seed, call.rng.pos),
                                call.numerator, call.denominator)

C17_Witness ==
    /\ call_pc = "done" /\ call.op = "chance"
    /\ call.numerator = call.denominator
    /\ call.numerator > 0
    /\ call.rng.pos > 0
    /\ ret.value.rng = call.rng

(***************************************************************************)
(* neighbors and the edges builder (solver-graph/src/helpers.rs).  A       *)
(* SmallArray keeps its variant: [kind, items].  A small graph is          *)
(* [nodes, edges] with one edge list per node, as every caller builds it.  *)
(* An Option is <<>> for None and <<v>> for Some(v).                       *)
(***************************************************************************)
NodeCounts == {1, 2} \* small graphs have one or two nodes
MaxFanout == 2       \* a node has at most this many outgoing edges

EmptyArray == [kind |-> "Empty", items |-> <<>>]
Dynamic(items) == [kind |-> "Dynamic", items |-> items]

\* as_slice (small_array.rs): the items of either variant
as_slice(array) == array.items

\* edges (helpers.rs 45-59): an empty list is stored as SmallArray::Empty
edges(lists) ==
    [k \in 1..Len(lists) |-> IF lists[k] = <<>> THEN EmptyArray ELSE Dynamic(lists[k])]

\* small_graph (helpers.rs)
small_graph(nodes, es) == [nodes |-> nodes, edges |-> es]

\* Variant of neighbors: an unknown index gives Some(empty).
neighborsUnknownEmpty(g, index) ==
    IF index < Len(g.edges)
    THEN LET es == as_slice(g.edges[index + 1])
         IN  <<[k \in 1..Len(es) |-> es[k].to]>>
    ELSE <<<<>>>>

\* neighbors (helpers.rs 17-25): Edges::get(index), then the targets in order
neighbors(g, index) ==
    IF index < Len(g.edges)
    THEN LET es == as_slice(g.edges[index + 1])
         IN  <<[k \in 1..Len(es) |-> es[k].to]>>
    ELSE <<>>

\* The edge lists of a graph of n nodes: for node i, up to MaxFanout edges
\* from i to nodes of the graph.
TargetSeqs(n) ==
    UNION {[1..len -> 0..(n - 1)] : len \in 0..MaxFanout}

EdgeLists(n) ==
    {[k \in 1..n |-> [j \in 1..Len(t[k]) |-> edge(k - 1, t[k][j])]] :
        t \in [1..n -> TargetSeqs(n)]}

NeighborsCalls ==
    UNION {{[op |-> "neighbors", nodes |-> [k \in 1..n |-> k - 1], lists |-> ls, index |-> i] :
              ls \in EdgeLists(n), i \in 0..(n + 1)} : n \in NodeCounts}

NeighborsCall ==
    /\ call_pc = "call" /\ call.op = "neighbors"
    /\ LET es == edges(call.lists)
           g == small_graph(call.nodes, es)
       IN  ret' = Returned([edges |-> es, neighbors |-> neighbors(g, call.index)])
    /\ call_pc' = "done"
    /\ UNCHANGED call

(***************************************************************************)
(* C18.  neighbors(graph, i) is Some(targets of node i's edges in stored   *)
(* order); Some(empty) for a node without outgoing edges; None for an      *)
(* index that is no node of the graph.  The edges builder stores an empty  *)
(* list as the Empty variant, distinct from a populated one.               *)
(***************************************************************************)
C18_Neighbors ==
    (call_pc = "done" /\ call.op = "neighbors")
        => LET n == Len(call.nodes)
               i == call.index
           IN  /\ ~ret.panic
               /\ i >= n => ret.value.neighbors = <<>>
               /\ i < n =>
                    /\ Len(ret.value.neighbors) = 1
                    /\ Len(ret.value.neighbors[1]) = Len(call.lists[i + 1])
                    /\ \A k \in 1..Len(call.lists[i + 1]) :
                          ret.value.neighbors[1][k] = call.lists[i + 1][k].to
               /\ \A k \in 1..n :
                    /\ call.lists[k] = <<>> <=> ret.value.edges[k].kind = "Empty"
                    /\ ret.value.edges[k].items = call.lists[k]

C18_Witness ==
    /\ call_pc = "done" /\ call.op = "neighbors"
    /\ call.index < Len(call.nodes)
    /\ call.lists[call.index + 1] = <<>>
    /\ ret.value.neighbors = <<<<>>>>
    /\ \E k \in 1..Len(call.nodes) : Len(call.lists[k]) = 2

(***************************************************************************)
(* Operator::execute of the built-in operators.  operator.rs dispatches    *)
(* each variant to its function (repair_random .. reset_partial); the      *)
(* operators of solver.rs carry their own execute.  Neither reads the      *)
(* model or the solution.                                                  *)
(***************************************************************************)
BuiltinOperators ==
    {<<"Repair", "Random">>, <<"Repair", "Nearest">>,
     <<"Destroy", "Random">>, <<"Destroy", "Nearest">>,
     <<"Reset", "Full">>, <<"Reset", "Partial">>}

\* The solutions an operator is executed on: with and without plan units
\* it could act on.
OperatorSolutions == {[value |-> 0, assigned |-> a, unassigned |-> u] : a, u \in 0..1}

\* operator.rs 58-63, 85-90, 112-117 and 126-178: every function is todo!()
operator_execute(operator, sol) == Panicked

\* solver.rs 196-198, 214-216, 232-234: None
solver_execute(operator, sol) == Returned(<<>>)

ExecuteCalls ==
    {[op |-> "execute", file |-> f, operator |-> o, solution |-> sol] :
        f \in {"operator.rs", "solver.rs"}, o \in BuiltinOperators, sol \in OperatorSolutions}

ExecuteCall ==
    /\ call_pc = "call" /\ call.op = "execute"
    /\ ret' = IF call.file = "operator.rs"
              THEN operator_execute(call.operator, call.solution)
              ELSE solver_execute(call.operator, call.solution)
    /\ call_pc' = "done"
    /\ UNCHANGED call

(***************************************************************************)
(* C19.  Every built-in operator, executed on any solution (also one with  *)
(* nothing to destroy or repair), returns and does not panic.              *)
(***************************************************************************)
C19_ExecuteNeverPanics ==
    (call_pc = "done" /\ call.op = "execute") => ~ret.panic

(***************************************************************************)
(* reduce on Empty and One operands, in a build with or without overflow   *)
(* checks.                                                                 *)
(***************************************************************************)
ReduceOperands == {Empty} \cup {One(w) : w \in {WMin, NegWeight, 0 - 1, 0, 1, BigWeight, WMax}}

ReduceCalls == {[op |-> "reduce", a |-> a, b |-> b] : a, b \in ReduceOperands}

\* a.reduce(Reducer::SumArray(b)): `+` panics on overflow when the build
\* checks it and wraps otherwise.
ReduceCall ==
    /\ call_pc = "call" /\ call.op = "reduce"
    /\ \E checks \in BOOLEAN :
         LET r == reduce(call.a, call.b)
         IN  ret' = IF r.overflow /\ checks THEN Panicked ELSE Returned(r.value)
    /\ call_pc' = "done"
    /\ UNCHANGED call

\* The sum by cases: Empty is neutral, One + One adds the values.
SumOf(a, b) ==
    IF a = Empty THEN b
    ELSE IF b = Empty THEN a
    ELSE One(a[1] + b[1])

SumFits(a, b) == a = Empty \/ b = Empty \/ ~Overflows(a[1] + b[1])

(***************************************************************************)
(* C20 as stated.  reduce gives Empty+Empty = Empty, Empty+One[b] =        *)
(* One[b], One[a]+Empty = One[a], One[a]+One[b] = One[a+b], without a      *)
(* panic for every combination of Empty and One operands.                  *)
(***************************************************************************)
C20_ReduceSum_Orig ==
    (call_pc = "done" /\ call.op = "reduce")
        => /\ ~ret.panic
           /\ ret.value = SumOf(call.a, call.b)

(***************************************************************************)
(* C20.  When a + b is representable in V, reduce gives the four cases     *)
(* without a panic; the result is the one reduce gives for the operands    *)
(* in the other order (commutative), and an Empty operand leaves the       *)
(* other operand as the result (identity).                                 *)
(***************************************************************************)
C20_ReduceSum ==
    (call_pc = "done" /\ call.op = "reduce" /\ SumFits(call.a, call.b))
        => /\ ~ret.panic
           /\ ret.value = SumOf(call.a, call.b)
           /\ ret.value = reduce(call.b, call.a).value
           /\ call.a = Empty => ret.value = call.b
           /\ call.b = Empty => ret.value = call.a

C20_Witness ==
    /\ call_pc = "done" /\ call.op = "reduce"
    /\ call.a = One(BigWeight) /\ call.b = One(NegWeight)
    /\ ret = Returned(One(BigWeight + NegWeight))


(***************************************************************************)
(* PriorityQueue (solver_graph/src/queue.rs) under any sequence of push    *)
(* and pop.  pq_before is the heap the last operation started from,        *)
(* pq_ret what pop returned (<<>> for None), pq_op the last operation.     *)
(***************************************************************************)
MaxHeap == 4         \* the queue holds at most this many elements

PQValues == GenNodeSet \X {Empty, One(1)}

\* PriorityQueue::new (queue.rs 14-18): an empty Dynamic array
PQInit ==
    /\ pq_heap = <<>> /\ pq_before = <<>> /\ pq_ret = <<>> /\ pq_op = "new"
    /\ pq_held = [v \in PQValues |-> 0]
    /\ dag = <<>> /\ dag_added = <<>> /\ dag_pc = "idle"
    \* the other components are not in use
    /\ call = <<>> /\ ret = <<>> /\ call_pc = "idle"
    /\ graph = [n |-> 0, adj |-> <<>>]
    /\ from = 0 /\ to = 0 /\ overflow_checks = <<>>
    /\ weights = <<>> /\ prev_nodes = <<>> /\ queue = <<>>
    /\ sp_pc = "idle" /\ path = <<>>
    /\ operators = <<>> /\ max_iterations = 0 /\ seed = <<>> /\ solution = <<>>
    /\ iteration_count = 0 /\ solver_pc = "idle" /\ local = <<>> /\ op_index = 0
    /\ result = <<>> /\ executed = <<>> /\ best_call = <<>> /\ candidates = {}
    /\ iter_start = <<>> /\ op_calls = <<>>
    /\ input = [stops |-> <<>>, vehicles |-> <<>>]
    /\ m_index = 0 /\ plan_units = <<>> /\ plan_unit_set = {} /\ m_pc = "idle"

\* PriorityQueue::push (queue.rs 26-29)
PQPush ==
    /\ Len(pq_heap) < MaxHeap
    /\ \E value \in PQValues :
         /\ pq_heap' = push(pq_heap, value)
         /\ pq_held' = [pq_held EXCEPT ![value] = @ + 1]
    /\ pq_before' = pq_heap
    /\ pq_ret' = <<>>
    /\ pq_op' = "push"

\* PriorityQueue::pop (queue.rs 31-41): None on an empty queue
PQPop ==
    /\ IF pq_heap = <<>>
       THEN pq_ret' = <<>> /\ pq_heap' = pq_heap /\ pq_held' = pq_held
       ELSE LET r == pop(pq_heap)
            IN  /\ pq_ret' = <<r.popped>> /\ pq_heap' = r.heap
                /\ pq_held' = [pq_held EXCEPT ![r.popped] = @ - 1]
    /\ pq_before' = pq_heap
    /\ pq_op' = "pop"

PQSteps ==
    \/ PQPush /\ UNCHANGED <<spVars, solverVars, modelVars, callVars, dagVars>>
    \/ PQPop /\ UNCHANGED <<spVars, solverVars, modelVars, callVars, dagVars>>

SpecPQ == PQInit /\ [][PQSteps]_vars

\* The number of occurrences of v in the sequence s.
Count(s, v) == Cardinality({k \in 1..Len(s) : s[k] = v})

(***************************************************************************)
(* C15.  After any sequence of push and pop, pop returns a smallest        *)
(* element held, removes exactly one occurrence of it and nothing else,    *)
(* and the length drops by one; pop on an empty queue returns None and     *)
(* leaves the queue empty.                                                 *)
(***************************************************************************)
C15_PopSmallest ==
    pq_op = "pop"
        => IF pq_before = <<>>
           THEN pq_ret = <<>> /\ pq_heap = <<>>
           ELSE /\ Len(pq_ret) = 1
                /\ \A k \in 1..Len(pq_before) : ~EntryLt(pq_before[k], pq_ret[1])
                /\ Len(pq_heap) = Len(pq_before) - 1
                /\ \A v \in PQValues :
                     Count(pq_heap, v)
                        = Count(pq_before, v) - (IF v = pq_ret[1] THEN 1 ELSE 0)

C15_Witness ==
    /\ pq_op = "pop"
    /\ Len(pq_before) >= 3
    /\ pq_ret # <<>>
    /\ Count(pq_before, pq_ret[1]) = 2
    /\ \E k \in 1..Len(pq_heap) : EntryLt(pq_ret[1], pq_heap[k])

(***************************************************************************)
(* C21.  If any stop of the input declares more than one precedence        *)
(* target, Model::from produces no Model, wherever the stop stands and     *)
(* whether or not an earlier stop's plan unit has claimed it.              *)
(***************************************************************************)
C21_TwoTargetsNeverBuilt ==
    (\E k \in 1..Len(input.stops) : TooManyPrecedes(input.stops[k]))
        => m_pc # "built"

(***************************************************************************)
(* The iteration that has just ended (solver_pc = "loop" after at least    *)
(* one iteration): iter_start is the solution held before it, op_calls     *)
(* its execute calls.                                                      *)
(***************************************************************************)
IterationEnded == solver_pc = "loop" /\ iteration_count > 0
NoCandidate == \A k \in 1..Len(op_calls) : op_calls[k].result = <<>>

(***************************************************************************)
(* C22 as stated.  An iteration in which no operator produces a candidate  *)
(* leaves the Solver's solution as it was before the iteration.            *)
(***************************************************************************)
C22_NoCandidateUnchanged_Orig ==
    (IterationEnded /\ NoCandidate) => solution = iter_start

(***************************************************************************)
(* C22.  An iteration in which no operator produces a candidate leaves a   *)
(* held Solution as it was; a Solver that held none holds the default      *)
(* Solution afterwards.                                                    *)
(***************************************************************************)
C22_NoCandidateUnchanged ==
    (IterationEnded /\ NoCandidate)
        => IF iter_start = <<>>
           THEN solution = <<DefaultSolution>>
           ELSE solution = iter_start

C22_Witness ==
    /\ IterationEnded /\ NoCandidate
    /\ Len(op_calls) = 2
    /\ iter_start # <<>>
    /\ iter_start[1] # DefaultSolution
    /\ solution = iter_start

\* The solution retained after the execute call c.
RetainedAfter(c) == IF c.result = <<>> THEN c.solution ELSE best(c.result[1], c.solution)

(***************************************************************************)
(* C23.  Within an iteration the operators are executed in registration    *)
(* order, the k-th call being operator k's; the first sees the solution    *)
(* the iteration began with (the default if none), each later one the      *)
(* solution retained after the call before it.  Iterations do not          *)
(* overlap: while iteration N + 1 runs, the operators before op_index      *)
(* have run N + 1 times and the others N times; the counter is only        *)
(* incremented, by one, after every operator has run.                      *)
(***************************************************************************)
C23_OperatorOrder ==
    /\ [](solver_pc = "ops"
            => /\ Len(op_calls) = op_index - 1
               /\ \A i \in 1..Len(operators) :
                    executed[i] = iteration_count + (IF i < op_index THEN 1 ELSE 0))
    /\ [](solver_pc \in {"loop", "done"}
            => \A i \in 1..Len(operators) : executed[i] = iteration_count)
    /\ [](\A k \in 1..Len(op_calls) :
            /\ op_calls[k].op = k
            /\ k = 1 => op_calls[k].solution
                          = (IF iter_start = <<>> THEN DefaultSolution ELSE iter_start[1])
            /\ k > 1 => op_calls[k].solution = RetainedAfter(op_calls[k - 1]))
    /\ [][iteration_count' # iteration_count
            => /\ iteration_count' = iteration_count + 1
               /\ Len(op_calls) = Len(operators)
               /\ op_calls' = op_calls]_vars

C23_Witness ==
    /\ solver_pc = "ops"
    /\ iteration_count = 1
    /\ Len(operators) = 2
    /\ Len(op_calls) = 2
    /\ op_calls[1].result # <<>>
    /\ op_calls[2].solution = op_calls[1].result[1]
    /\ op_calls[2].solution # op_calls[1].solution

\* Some node of g lies on a directed cycle.
HasCycle(g) ==
    \E e \in EdgesOf(g) : Reachable(g, e.to, e.from)

C25_HeapInvariant ==
    /\ [](\A i \in 1..(Len(pq_heap) - 1) :
            ~EntryLt(pq_heap[i + 1], pq_heap[((i - 1) \div 2) + 1]))
    /\ [](\A v \in DOMAIN pq_held : Count(pq_heap, v) = pq_held[v])
    /\ [](\A k \in 1..Len(pq_heap) : pq_heap[k] \in DOMAIN pq_held)
    /\ [][(pq_op' = "pop" /\ pq_heap # <<>>)
            => Len(pq_heap') = Len(pq_heap) - 1]_vars
    /\ [][(pq_op' = "pop" /\ Len(pq_heap) <= 1) => pq_heap' = <<>>]_vars

C25_Witness ==
    /\ pq_op = "pop"
    /\ Len(pq_heap) >= 3
    /\ EntryLt(pq_heap[3], pq_heap[2])
    /\ \E v \in DOMAIN pq_held : pq_held[v] = 2

(***************************************************************************)
(* SmallArray push, pop and sorted (solver-graph/src/small_array.rs, and   *)
(* sorted of solver_graph/src/small_array.rs).  A fixed-size variant       *)
(* (One .. Ten, named by its length) is [kind |-> "Fixed", items].         *)
(***************************************************************************)
MaxArrayLen == 2     \* arrays hold at most this many elements

ArrayValues == {0, 1, 2}

Fixed(items) == [kind |-> "Fixed", items |-> items]

ItemSeqs == UNION {[1..len -> ArrayValues] : len \in 0..MaxArrayLen}

SmallArrays ==
    {EmptyArray}
    \cup {Dynamic(items) : items \in ItemSeqs}
    \cup {Fixed(items) : items \in ItemSeqs \ {<<>>}}

\* SmallArray::push (small_array.rs 37-43): [panic, array]
small_array_push(array, value) ==
    IF array.kind = "Empty" THEN [panic |-> FALSE, array |-> array]
    ELSE IF array.kind = "Dynamic"
         THEN [panic |-> FALSE, array |-> Dynamic(Append(array.items, value))]
    ELSE [panic |-> TRUE, array |-> array]

\* SmallArray::pop (small_array.rs 45-51): [panic, popped, array]
small_array_pop(array) ==
    IF array.kind = "Empty" THEN [panic |-> FALSE, popped |-> <<>>, array |-> array]
    ELSE IF array.kind = "Dynamic"
         THEN IF array.items = <<>>
              THEN [panic |-> FALSE, popped |-> <<>>, array |-> array]
              ELSE [panic |-> FALSE, popped |-> <<Last(array.items)>>,
                    array |-> Dynamic(Front(array.items))]
    ELSE [panic |-> TRUE, popped |-> <<>>, array |-> array]

PushPopCalls ==
    {[op |-> "push_pop", array |-> a, value |-> v] : a \in SmallArrays, v \in ArrayValues}

\* array.push(value) and then array.pop()
PushPopCall ==
    /\ call_pc = "call" /\ call.op = "push_pop"
    /\ LET pushed == small_array_push(call.array, call.value)
           popped == small_array_pop(pushed.array)
       IN  ret' = IF pushed.panic \/ popped.panic THEN Panicked
                  ELSE Returned([pushed |-> pushed.array, popped |-> popped.popped,
                                 after |-> popped.array])
    /\ call_pc' = "done"
    /\ UNCHANGED call

(***************************************************************************)
(* C26.  For every SmallArray and value v, push(v) makes the array one     *)
(* longer with v last, and the pop() that follows returns v and gives      *)
(* back the contents before the push.                                      *)
(***************************************************************************)
C26_PushThenPop ==
    (call_pc = "done" /\ call.op = "push_pop")
        => /\ ~ret.panic
           /\ ret.value.pushed.items = Append(call.array.items, call.value)
           /\ ret.value.popped = <<call.value>>
           /\ ret.value.after.items = call.array.items

Reverse(s) == [k \in 1..Len(s) |-> s[Len(s) + 1 - k]]

\* sorted of solver-graph (small_array.rs 75-127): [panic, array]
sorted(array, sorting) ==
    [panic |-> FALSE,
     array |-> IF array.kind = "Empty" THEN array
               ELSE [array EXCEPT !.items =
                        IF sorting = "Ascend"
                        THEN SortSeq(array.items, LAMBDA a, b : a < b)
                        ELSE Reverse(array.items)]]

\* sorted of solver_graph (small_array.rs 54-103): Empty and One are left
\* alone; the other variants sort ascending and are unimplemented otherwise.
sorted_v1(array, sorting) ==
    IF array.kind = "Empty" \/ (array.kind = "Fixed" /\ Len(array.items) = 1)
    THEN [panic |-> FALSE, array |-> array]
    ELSE IF sorting = "Ascend"
         THEN [panic |-> FALSE,
               array |-> [array EXCEPT !.items = SortSeq(array.items, LAMBDA a, b : a < b)]]
         ELSE [panic |-> TRUE, array |-> array]

\* solver_graph's SmallArray has the variants Empty, One, Five, Ten, Dynamic.
SortedCalls ==
    {[op |-> "sorted", file |-> "solver-graph", array |-> a, sorting |-> s] :
        a \in SmallArrays, s \in {"Ascend", "Descend"}}
    \cup {[op |-> "sorted", file |-> "solver_graph", array |-> a, sorting |-> s] :
            a \in {x \in SmallArrays : x.kind # "Fixed" \/ Len(x.items) = 1},
            s \in {"Ascend", "Descend"}}

SortedCall ==
    /\ call_pc = "call" /\ call.op = "sorted"
    /\ LET r == IF call.file = "solver-graph"
                THEN sorted(call.array, call.sorting)
                ELSE sorted_v1(call.array, call.sorting)
       IN  ret' = IF r.panic THEN Panicked ELSE Returned(r.array)
    /\ call_pc' = "done"
    /\ UNCHANGED call

(***************************************************************************)
(* C27.  For every SmallArray and element order, sorted(Ascend) leaves     *)
(* the elements in non-decreasing and sorted(Descend) in non-increasing    *)
(* order, with the same elements as often as before and the same variant.  *)
(***************************************************************************)
C27_SortedOrders ==
    (call_pc = "done" /\ call.op = "sorted")
        => /\ ~ret.panic
           /\ ret.value.kind = call.array.kind
           /\ \A v \in ArrayValues : Count(ret.value.items, v) = Count(call.array.items, v)
           /\ \A k \in 1..(Len(ret.value.items) - 1) :
                IF call.sorting = "Ascend"
                THEN ret.value.items[k] <= ret.value.items[k + 1]
                ELSE ret.value.items[k] >= ret.value.items[k + 1]


(***************************************************************************)
(* PartialEq for Edge (solver_graph/src/graph.rs).                         *)
(***************************************************************************)
EqEdges ==
    {[from |-> f, to |-> t, weights |-> w] :
        f \in {0, 1}, t \in {0, 1}, w \in {<<>>, <<Empty>>, <<One(1)>>, <<One(2)>>}}

\* Edge::eq (graph.rs 146-156): `eq`, the comparison of from and to, is
\* computed and not used; the result is the match on the weights.
edge_eq(self, other) ==
    LET eq == self.from = other.from /\ self.to = other.to
    IN  IF self.weights # <<>> /\ other.weights # <<>>
        THEN self.weights[1] = other.weights[1]
        ELSE self.weights = <<>> /\ other.weights = <<>>

EdgeEqCalls == {[op |-> "edge_eq", left |-> a, right |-> b] : a, b \in EqEdges}

EdgeEqCall ==
    /\ call_pc = "call" /\ call.op = "edge_eq"
    /\ ret' = Returned(edge_eq(call.left, call.right))
    /\ call_pc' = "done"
    /\ UNCHANGED call

(***************************************************************************)
(* C28.  Two edges compare equal exactly when their from positions, their  *)
(* to positions and their weights (both absent, or both present with       *)
(* equal contents) are equal.                                              *)
(***************************************************************************)
C28_EdgeEquality ==
    (call_pc = "done" /\ call.op = "edge_eq")
        => (ret.value <=> /\ call.left.from = call.right.from
                          /\ call.left.to = call.right.to
                          /\ call.left.weights = call.right.weights)


(***************************************************************************)
(* DirectedAcyclicGraph (solver_vrp/src/model.rs 404-442) under any        *)
(* sequence of add_arc calls.  An Arc is [from, to].                       *)
(***************************************************************************)
MaxArcs == 3         \* at most this many add_arc calls

DagNodeCounts == {2, 3}

\* DirectedAcyclicGraph::with_capacity (model.rs 415-421)
with_capacity(node_count) ==
    [edges |-> [i \in 1..node_count |-> <<>>],
     outbound_arcs |-> [i \in 1..node_count |-> <<>>],
     arcs |-> <<>>]

\* DirectedAcyclicGraph::add_arc (model.rs 423-428), for from < node count
add_arc(g, f, t) ==
    LET arc == [from |-> f, to |-> t]
    IN  [edges |-> [g.edges EXCEPT ![f + 1] = Append(@, t)],
         outbound_arcs |-> [g.outbound_arcs EXCEPT ![f + 1] = Append(@, arc)],
         arcs |-> Append(g.arcs, arc)]

\* DirectedAcyclicGraph::outbound (model.rs 430-432)
outbound(g, node) == g.outbound_arcs[node + 1]

DagInit ==
    /\ \E n \in DagNodeCounts : dag = with_capacity(n)
    /\ dag_added = <<>>
    /\ dag_pc = "ok"
    \* the other components are not in use
    /\ call = <<>> /\ ret = <<>> /\ call_pc = "idle"
    /\ pq_heap = <<>> /\ pq_before = <<>> /\ pq_ret = <<>> /\ pq_op = "idle"
    /\ pq_held = <<>>
    /\ graph = [n |-> 0, adj |-> <<>>]
    /\ from = 0 /\ to = 0 /\ overflow_checks = <<>>
    /\ weights = <<>> /\ prev_nodes = <<>> /\ queue = <<>>
    /\ sp_pc = "idle" /\ path = <<>>
    /\ operators = <<>> /\ max_iterations = 0 /\ seed = <<>> /\ solution = <<>>
    /\ iteration_count = 0 /\ solver_pc = "idle" /\ local = <<>> /\ op_index = 0
    /\ result = <<>> /\ executed = <<>> /\ best_call = <<>> /\ candidates = {}
    /\ iter_start = <<>> /\ op_calls = <<>>
    /\ input = [stops |-> <<>>, vehicles |-> <<>>]
    /\ m_index = 0 /\ plan_units = <<>> /\ plan_unit_set = {} /\ m_pc = "idle"

\* add_arc(from, to) with from a node of the graph; to is not looked at.
AddArc ==
    /\ dag_pc = "ok" /\ Len(dag_added) < MaxArcs
    /\ \E f \in 0..(Len(dag.edges) - 1), t \in 0..Len(dag.edges) :
         /\ dag' = add_arc(dag, f, t)
         /\ dag_added' = Append(dag_added, <<f, t>>)
    /\ UNCHANGED dag_pc

\* add_arc(from, to) with from beyond the capacity: self.edges[from] panics.
AddArcPanic ==
    /\ dag_pc = "ok" /\ Len(dag_added) < MaxArcs
    /\ \E f \in {Len(dag.edges)}, t \in 0..Len(dag.edges) :
         dag_added' = Append(dag_added, <<f, t>>)
    /\ dag_pc' = "panic"
    /\ UNCHANGED dag

DagSteps ==
    \/ AddArc /\ UNCHANGED <<spVars, solverVars, modelVars, callVars, pqVars>>
    \/ AddArcPanic /\ UNCHANGED <<spVars, solverVars, modelVars, callVars, pqVars>>

SpecDag == DagInit /\ [][DagSteps]_vars

\* The nodes reached from the nodes of S along the arcs.
RECURSIVE ArcReach(_, _)
ArcReach(arcs, S) ==
    LET T == S \cup {arcs[k].to : k \in {j \in 1..Len(arcs) : arcs[j].from \in S}}
    IN  IF T = S THEN S ELSE ArcReach(arcs, T)

HasDirectedCycle(arcs) ==
    \E k \in 1..Len(arcs) : arcs[k].from \in ArcReach(arcs, {arcs[k].to})

\* The arcs leaving node, in the order of arcs.
Leaving(arcs, node) == SelectSeq(arcs, LAMBDA a : a.from = node)

(***************************************************************************)
(* C29.  After any sequence of add_arc calls the stored arcs contain no    *)
(* directed cycle and no self-loop; arcs holds every added arc in          *)
(* insertion order; edges[node] and outbound(node) list exactly the arcs   *)
(* leaving node, in insertion order.                                       *)
(***************************************************************************)
C29_AcyclicAndOrdered ==
    dag_pc = "ok"
        => /\ ~HasDirectedCycle(dag.arcs)
           /\ dag.arcs = [k \in 1..Len(dag_added) |->
                            [from |-> dag_added[k][1], to |-> dag_added[k][2]]]
           /\ \A node \in 0..(Len(dag.edges) - 1) :
                /\ outbound(dag, node) = Leaving(dag.arcs, node)
                /\ dag.edges[node + 1]
                     = [k \in 1..Len(Leaving(dag.arcs, node)) |-> Leaving(dag.arcs, node)[k].to]


(***************************************************************************)
(* Genetic-algorithm crossover: Model::reproduce (src/ga/model.rs, and     *)
(* the same body in src/ga/mod.rs).  An Individual is its genes.  The      *)
(* crossover rate is rate / RateDen, a multiple of a power of two, so      *)
(* that `len as f32 * crossover_rate` is exact and `as usize` is the       *)
(* floor.                                                                  *)
(***************************************************************************)
MaxGenes == 3        \* individuals have at most this many genes
RateDen == 4         \* crossover rates are multiples of 1 / RateDen
MaxRate == 5         \* crossover rates range over 0 .. MaxRate / RateDen

Individuals == UNION {[1..len -> {0, 1}] : len \in 0..MaxGenes}

\* Variant of reproduce: n is rounded up.
reproduceCeil(parent_a, parent_b, rate) ==
    LET n == (Len(parent_a) * rate + RateDen - 1) \div RateDen
    IN  IF n > Len(parent_a) \/ n > Len(parent_b)
        THEN Panicked
        ELSE Returned(SubSeq(parent_a, 1, n) \o SubSeq(parent_b, n + 1, Len(parent_b)))

\* Model::reproduce (model.rs 68-75): the slices [0..n] and [n..] panic
\* when n is beyond the length of the parent.
reproduce(parent_a, parent_b, rate) ==
    LET n == (Len(parent_a) * rate) \div RateDen
    IN  IF n > Len(parent_a) \/ n > Len(parent_b)
        THEN Panicked
        ELSE Returned(SubSeq(parent_a, 1, n) \o SubSeq(parent_b, n + 1, Len(parent_b)))

ReproduceCalls ==
    {[op |-> "reproduce", parent_a |-> a, parent_b |-> b, rate |-> r] :
        a \in Individuals, b \in Individuals, r \in 0..MaxRate}

ReproduceCall ==
    /\ call_pc = "call" /\ call.op = "reproduce"
    /\ ret' = reproduce(call.parent_a, call.parent_b, call.rate)
    /\ call_pc' = "done"
    /\ UNCHANGED call

\* n = floor(len(parent_a) * r) of the call: the largest n with
\* n * RateDen <= len(parent_a) * rate.
CrossoverPoint ==
    CHOOSE n \in 0..(Len(call.parent_a) * call.rate) :
        /\ n * RateDen <= Len(call.parent_a) * call.rate
        /\ (n + 1) * RateDen > Len(call.parent_a) * call.rate

\* The child is parent_a's first n genes, then parent_b's genes from n on.
ChildIsCrossover(child, n) ==
    /\ Len(child) = Len(call.parent_b)
    /\ \A k \in 1..Len(child) :
         child[k] = IF k <= n THEN call.parent_a[k] ELSE call.parent_b[k]
    /\ Len(call.parent_a) = Len(call.parent_b) => Len(child) = Len(call.parent_a)

(***************************************************************************)
(* C30 as stated.  reproduce(parent_a, parent_b) with crossover rate r     *)
(* returns a child whose first n = floor(len(parent_a) * r) genes are      *)
(* parent_a's and whose other genes are parent_b's from position n on;     *)
(* for parents of equal length the child has their length.                 *)
(***************************************************************************)
C30_Crossover_Orig ==
    (call_pc = "done" /\ call.op = "reproduce")
        => /\ ~ret.panic
           /\ ChildIsCrossover(ret.value, CrossoverPoint)

(***************************************************************************)
(* C30.  When neither parent has fewer than n = floor(len(parent_a) * r)   *)
(* genes, reproduce returns a child whose first n genes are parent_a's     *)
(* and whose other genes are parent_b's from position n on; for parents    *)
(* of equal length the child has their length.                             *)
(***************************************************************************)
C30_Crossover ==
    (/\ call_pc = "done" /\ call.op = "reproduce"
     /\ CrossoverPoint <= Len(call.parent_a)
     /\ CrossoverPoint <= Len(call.parent_b))
        => /\ ~ret.panic
           /\ ChildIsCrossover(ret.value, CrossoverPoint)

C30_Witness ==
    /\ call_pc = "done" /\ call.op = "reproduce"
    /\ call.parent_a = <<0, 0, 0>> /\ call.parent_b = <<1, 1, 1>>
    /\ 2 * call.rate = RateDen
    /\ ret = Returned(<<0, 1, 1>>)

(***************************************************************************)
(* The calls: one function is called with arguments from its call set and  *)
(* returns or panics.                                                      *)
(***************************************************************************)
Calls ==
    SolveCalls \cup ChanceCalls \cup NeighborsCalls \cup ExecuteCalls \cup ReduceCalls
    \cup PushPopCalls \cup SortedCalls \cup EdgeEqCalls \cup ReproduceCalls

CallInit ==
    /\ call \in Calls
    /\ ret = <<>>
    /\ call_pc = "call"
    \* the other components are not in use
    /\ pq_heap = <<>> /\ pq_before = <<>> /\ pq_ret = <<>> /\ pq_op = "idle"
    /\ pq_held = <<>>
    /\ dag = <<>> /\ dag_added = <<>> /\ dag_pc = "idle"
    /\ graph = [n |-> 0, adj |-> <<>>]
    /\ from = 0 /\ to = 0 /\ overflow_checks = <<>>
    /\ weights = <<>> /\ prev_nodes = <<>> /\ queue = <<>>
    /\ sp_pc = "idle" /\ path = <<>>
    /\ operators = <<>> /\ max_iterations = 0 /\ seed = <<>> /\ solution = <<>>
    /\ iteration_count = 0 /\ solver_pc = "idle" /\ local = <<>> /\ op_index = 0
    /\ result = <<>> /\ executed = <<>> /\ best_call = <<>> /\ candidates = {}
    /\ iter_start = <<>> /\ op_calls = <<>>
    /\ input = [stops |-> <<>>, vehicles |-> <<>>]
    /\ m_index = 0 /\ plan_units = <<>> /\ plan_unit_set = {} /\ m_pc = "idle"

CallSteps ==
    \/ SolveCall /\ UNCHANGED <<spVars, solverVars, modelVars, pqVars, dagVars>>
    \/ ChanceCall /\ UNCHANGED <<spVars, solverVars, modelVars, pqVars, dagVars>>
    \/ NeighborsCall /\ UNCHANGED <<spVars, solverVars, modelVars, pqVars, dagVars>>
    \/ ExecuteCall /\ UNCHANGED <<spVars, solverVars, modelVars, pqVars, dagVars>>
    \/ ReduceCall /\ UNCHANGED <<spVars, solverVars, modelVars, pqVars, dagVars>>
    \/ PushPopCall /\ UNCHANGED <<spVars, solverVars, modelVars, pqVars, dagVars>>
    \/ SortedCall /\ UNCHANGED <<spVars, solverVars, modelVars, pqVars, dagVars>>
    \/ EdgeEqCall /\ UNCHANGED <<spVars, solverVars, modelVars, pqVars, dagVars>>
    \/ ReproduceCall /\ UNCHANGED <<spVars, solverVars, modelVars, pqVars, dagVars>>

SpecCalls == CallInit /\ [][CallSteps]_vars

====
